---- MODULE Spec2Model ----
(***************************************************************************)
(* Model of examples/longitudinal-profiles.py: the PandaCan adapter, the   *)
(* Maneuver class (get_cc, get_msgs, log and its class-level _log) and     *)
(* main(): the try/finally session bracket around fingerprinting, the      *)
(* stabilization loop and the scripted loop, followed by the report.       *)
(*                                                                         *)
(* main() is sequential; pc is the statement main() is about to execute    *)
(* and every action is one statement (one call) of the source.  Each call  *)
(* into the panda or the car interface either returns or raises; a raise   *)
(* inside the try block transfers control to the finally clause.           *)
(***************************************************************************)
EXTENDS Integers, Sequences, FiniteSets, TLC

VARIABLES
  cfg,        \* the literals of the script: len(MANEUVERS), range bounds, cap
  pc,         \* statement of main() about to run
  err,        \* exception in flight ("none" when there is none)
  mode,       \* safety mode the panda is in
  cmds,       \* every p.set_safety_mode call made so far, in order
  teardown,   \* outcome of the finally clause's set_safety_mode call
  CI,         \* car interface returned by get_car (its CP), or NoCI
  mi,         \* index in MANEUVERS of the loop variable m (0 before the loop)
  si,         \* loop variable of the stabilization for-loop
  t,          \* tick yielded by m.get_msgs() (-1 before the first)
  msg,        \* CarControl yielded with t
  inbound,    \* value of pc.can_recv()[0] handed to CI.update (<<>> if none)
  cs,         \* CarState returned by CI.update (None before)
  can_sends,  \* frames returned by CI.apply
  sent,       \* every batch passed to p.can_send_many, in order
  _log,       \* Maneuver._log, the class attribute
  report,     \* report.html: NoReport, or the sections written
  cnt,        \* calls made in the current loop of the current maneuver
  call,       \* the last PandaCan.can_recv call: argument, local recv, polls
  trail       \* the startup statements executed so far, with their outcome

vars == <<cfg, pc, err, mode, cmds, teardown, CI, mi, si, t, msg, inbound, cs,
          can_sends, sent, _log, report, cnt, call, trail>>

-----------------------------------------------------------------------------
(* Literals of the source. *)

SAFETY_NOOUTPUT == "SAFETY_NOOUTPUT"
SAFETY_ELM327 == "SAFETY_ELM327"
SAFETY_TOYOTA == "SAFETY_TOYOTA"

\* len(MANEUVERS)
NumManeuvers == 1
\* int(3./DT), DT = 0.01
StabTicks == 300
\* int(1./DT)
ScriptTicks == 100
\* the literal of `if len(m._log["t"]) > 100`
SampleCap == 100

(* Bounds of the generalised configurations (SpecGen). *)
MaxManeuvers == 2
MaxStab == 2
MaxTicks == 4
MaxCap == 3

(* Bounds of the bus: frames in one poll, polls followed in one can_recv. *)
MaxFrames == 2
MaxPolls == 4

None == "None"
NoCI == "NoCI"
\* report.html before main() opens it
NoReport == [written |-> FALSE, sections |-> <<>>]

-----------------------------------------------------------------------------
(* Values of the external structs the script builds or receives. *)

\* CarControl(enabled=False): the fields get_cc names, at their defaults
NeutralCC ==
  [enabled |-> FALSE, latActive |-> FALSE, longActive |-> FALSE,
   actuators |-> [gas |-> 0, brake |-> 0, speed |-> 0, accel |-> 0,
                  longControlState |-> "off"],
   cruiseControl |-> [cancel |-> FALSE, resume |-> FALSE, override |-> FALSE]]

\* Maneuver.get_cc: the same CarControl for every t
get_cc(tt) ==
  [enabled |-> TRUE, latActive |-> FALSE, longActive |-> TRUE,
   actuators |-> [gas |-> 0, brake |-> 0, speed |-> 0, accel |-> 0,
                  longControlState |-> "off"],
   cruiseControl |-> [cancel |-> FALSE, resume |-> FALSE, override |-> FALSE]]

\* The CarState dataclass, reduced to the fields the script reads.  The
\* decoded values are opaque to the script and are held at one value.
CarStateV ==
  [aEgo |-> 0, canValid |-> TRUE, cruiseState |-> [enabled |-> FALSE]]

\* A state object of another shape (a field renamed), for callers of log
\* that are not bound to one dataclass definition.
CarStateAlt ==
  [aEgo |-> 0, vEgo |-> 0, cruiseState |-> [enabled |-> FALSE]]

\* the (addr, dat, bus) tuples p.can_recv() returns
RawFrames == {<<a, "dat", 0>> : a \in {1, 2, 3}}

\* What p.can_recv() can return: no frame, or some frames
Batches == UNION {[1..n -> RawFrames] : n \in 0..MaxFrames}

\* CanData(addr, dat, bus)
CanData(addr, dat, bus) == [address |-> addr, dat |-> dat, src |-> bus]

\* [CanData(addr, dat, bus) for addr, dat, bus in recv]
CanDataList(recv) ==
  [i \in 1..Len(recv) |-> CanData(recv[i][1], recv[i][2], recv[i][3])]

\* no can_recv call made yet
NoCall ==
  [wait_for_one |-> FALSE, ret |-> "none", phase |-> "none", recv |-> <<>>,
   results |-> <<>>, polls |-> 0, returned |-> FALSE]

\* the frame of a can_recv call that returns to `ret`: its argument, its
\* local recv, and the results and number of the p.can_recv() polls it made
NewCall(w, ret, phase) ==
  [wait_for_one |-> w, ret |-> ret, phase |-> phase, recv |-> <<>>,
   results |-> <<>>, polls |-> 0, returned |-> FALSE]

ProgramConfig ==
  [maneuvers |-> NumManeuvers, stab |-> StabTicks, ticks |-> ScriptTicks,
   cap |-> SampleCap, shapes |-> {CarStateV}]

GenConfigs ==
  [maneuvers : 1..MaxManeuvers, stab : 1..MaxStab, ticks : 1..MaxTicks,
   cap : 1..MaxCap, shapes : {{CarStateV}, {CarStateV, CarStateAlt}}]

-----------------------------------------------------------------------------
(* Maneuver.log and the defaultdict it writes. *)

TKey == <<"t">>

\* _log[k] of a defaultdict(list): a missing key reads as the empty list
Get(d, k) == IF k \in DOMAIN d THEN d[k] ELSE <<>>

\* the dict to_log of Maneuver.log, as (key, object) pairs
to_log(cc, c) ==
  { <<"carControl", cc>>, <<"carState", c>>,
    <<"carControl.actuators", cc.actuators>>,
    <<"carControl.cruiseControl", cc.cruiseControl>>,
    <<"carState.cruiseState", c.cruiseState>> }

\* the keys f"{k}.{k2}" one log call appends to
FieldSet(cc, c) ==
  UNION { { <<p[1], k2>> : k2 \in DOMAIN p[2] } : p \in to_log(cc, c) }

\* the value v2 appended under f"{k}.{k2}"
FieldValue(cc, c, key) ==
  LET p == CHOOSE q \in to_log(cc, c) : q[1] = key[1] IN p[2][key[2]]

\* log with `if t:` before the first append: tick 0 is not stored
logSkipsTickZero(d, tt, cc, c) ==
  LET keys == FieldSet(cc, c) IN
  [k \in DOMAIN d \cup {TKey} \cup keys |->
     IF k = TKey THEN (IF tt = 0 THEN Get(d, k) ELSE Append(Get(d, k), tt))
     ELSE IF k \in keys THEN Append(Get(d, k), FieldValue(cc, c, k))
     ELSE d[k]]

log(d, tt, cc, c) ==
  LET keys == FieldSet(cc, c) IN
  [k \in DOMAIN d \cup {TKey} \cup keys |->
     IF k = TKey THEN Append(Get(d, k), tt)
     ELSE IF k \in keys THEN Append(Get(d, k), FieldValue(cc, c, k))
     ELSE d[k]]

\* m._log for the maneuver at index i of MANEUVERS: _log is declared without
\* an annotation, so it is a class attribute and every instance reads the
\* same dict
Trace(i) == _log

-----------------------------------------------------------------------------
(* Control transfer. *)

\* Raise without the finally clause: the exception leaves main() at once
RaiseSkippingFinally(kind) == pc' = "raised" /\ err' = kind

\* an exception raised inside the try block: control goes to the finally clause
Raise(kind) == pc' = "finally" /\ err' = kind

Goto(l) == pc' = l /\ err' = err

NoCalls ==
  [stab |-> [recv |-> 0, update |-> 0, apply |-> 0, send |-> 0, log |-> 0],
   script |-> [recv |-> 0, update |-> 0, apply |-> 0, send |-> 0, log |-> 0]]

Count(phase, f) == cnt' = [cnt EXCEPT ![phase][f] = @ + 1]

\* p.set_safety_mode(m): the command reaches the panda, which changes mode
\* unless the call fails
set_safety_mode(m, ok) ==
  /\ cmds' = Append(cmds, m)
  /\ mode' = IF ok THEN m ELSE mode

\* everything but the position of control and the can_recv frame
InitData ==
  /\ err = "none"
  /\ mode = SAFETY_NOOUTPUT
  /\ cmds = <<>>
  /\ teardown = "pending"
  /\ CI = NoCI
  /\ mi = 0
  /\ si = 0
  /\ t = -1
  /\ msg = None
  /\ inbound = <<>>
  /\ cs = None
  /\ can_sends = None
  /\ sent = <<>>
  /\ _log = << >>
  /\ report = NoReport
  /\ cnt = NoCalls
  /\ trail = <<>>

Init0 ==
  /\ pc = "set_passive"
  /\ call = NoCall
  /\ InitData

Init == cfg = ProgramConfig /\ Init0

InitGen == cfg \in GenConfigs /\ Init0

-----------------------------------------------------------------------------
(* main(): startup, lines 86-93. *)

\* the mode-set wrapped in a retry loop: a failed call is made again
SetPassiveRetries ==
  /\ pc = "set_passive"
  /\ \E ok \in BOOLEAN :
       /\ trail' = Append(trail, [step |-> "set_passive", ok |-> ok])
       /\ set_safety_mode(SAFETY_ELM327, ok)
       /\ IF ok THEN Goto("get_car")
          ELSE IF Len(cmds) < 2 THEN Goto("set_passive")
          ELSE Raise("TransportError")
  /\ UNCHANGED <<cfg, call, teardown, CI, mi, si, t, msg, inbound, cs, can_sends,
                 sent, _log, report, cnt>>

\* p.set_safety_mode(Panda.SAFETY_ELM327, 1)
SetPassive ==
  /\ pc = "set_passive"
  /\ \E ok \in BOOLEAN :
       /\ trail' = Append(trail, [step |-> "set_passive", ok |-> ok])
       /\ set_safety_mode(SAFETY_ELM327, ok)
       /\ IF ok THEN Goto("get_car") ELSE Raise("TransportError")
  /\ UNCHANGED <<cfg, call, teardown, CI, mi, si, t, msg, inbound, cs, can_sends,
                 sent, _log, report, cnt>>

\* CI = get_car(pc.can_recv, pc.can_send, p.set_obd, True)
GetCar ==
  /\ pc = "get_car"
  /\ \/ \E long \in BOOLEAN :
          /\ CI' = [openpilotLongitudinalControl |-> long]
          /\ trail' = Append(trail, [step |-> "get_car", ok |-> TRUE])
          /\ Goto("assert_long")
     \/ /\ CI' = CI
        /\ trail' = Append(trail, [step |-> "get_car", ok |-> FALSE])
        /\ Raise("FingerprintError")
  /\ UNCHANGED <<cfg, call, mode, cmds, teardown, mi, si, t, msg, inbound, cs,
                 can_sends, sent, _log, report, cnt>>

\* the assert compiled away (python -O): the flag is not checked
AssertLongNotChecked ==
  /\ pc = "assert_long"
  /\ trail' = Append(trail, [step |-> "assert_long", ok |-> TRUE])
  /\ Goto("set_passive2")
  /\ UNCHANGED <<cfg, call, mode, cmds, teardown, CI, mi, si, t, msg, inbound, cs,
                 can_sends, sent, _log, report, cnt>>

\* assert CI.CP.openpilotLongitudinalControl
AssertLong ==
  /\ pc = "assert_long"
  /\ trail' = Append(trail, [step |-> "assert_long",
                              ok |-> CI.openpilotLongitudinalControl])
  /\ IF CI.openpilotLongitudinalControl
       THEN Goto("set_passive2")
       ELSE Raise("AssertionError")
  /\ UNCHANGED <<cfg, call, mode, cmds, teardown, CI, mi, si, t, msg, inbound, cs,
                 can_sends, sent, _log, report, cnt>>

\* p.set_safety_mode(Panda.SAFETY_ELM327, 1), the second one
SetPassive2 ==
  /\ pc = "set_passive2"
  /\ \E ok \in BOOLEAN :
       /\ trail' = Append(trail, [step |-> "set_passive2", ok |-> ok])
       /\ set_safety_mode(SAFETY_ELM327, ok)
       /\ IF ok THEN Goto("init") ELSE Raise("TransportError")
  /\ UNCHANGED <<cfg, call, teardown, CI, mi, si, t, msg, inbound, cs, can_sends,
                 sent, _log, report, cnt>>

\* CI.init(CI.CP, pc.can_recv, pc.can_send)
CarInit ==
  /\ pc = "init"
  /\ \/ /\ trail' = Append(trail, [step |-> "init", ok |-> TRUE])
        /\ Goto("set_active")
     \/ /\ trail' = Append(trail, [step |-> "init", ok |-> FALSE])
        /\ Raise("InitError")
  /\ UNCHANGED <<cfg, call, mode, cmds, teardown, CI, mi, si, t, msg, inbound, cs,
                 can_sends, sent, _log, report, cnt>>

\* the mode-set with its failure swallowed: the loop starts either way
SetActiveIgnoresFailure ==
  /\ pc = "set_active"
  /\ \E ok \in BOOLEAN :
       /\ trail' = Append(trail, [step |-> "set_active", ok |-> ok])
       /\ set_safety_mode(SAFETY_TOYOTA, ok)
       /\ Goto("for_maneuver")
  /\ UNCHANGED <<cfg, call, teardown, CI, mi, si, t, msg, inbound, cs, can_sends,
                 sent, _log, report, cnt>>

\* p.set_safety_mode(Panda.SAFETY_TOYOTA, ...)
SetActive ==
  /\ pc = "set_active"
  /\ \E ok \in BOOLEAN :
       /\ trail' = Append(trail, [step |-> "set_active", ok |-> ok])
       /\ set_safety_mode(SAFETY_TOYOTA, ok)
       /\ IF ok THEN Goto("for_maneuver") ELSE Raise("TransportError")
  /\ UNCHANGED <<cfg, call, teardown, CI, mi, si, t, msg, inbound, cs, can_sends,
                 sent, _log, report, cnt>>

-----------------------------------------------------------------------------
(* PandaCan.can_recv, lines 21-25. *)

\* the polls made, counted for the loop that called
CountPoll ==
  IF call.phase \in DOMAIN cnt THEN Count(call.phase, "recv")
                               ELSE UNCHANGED cnt

\* recv = self.p.can_recv(), line 22
CanRecvPoll ==
  /\ pc = "can_recv_poll"
  /\ \E b \in Batches :
       call' = [call EXCEPT !.recv = b, !.results = Append(@, b),
                             !.polls = @ + 1]
  /\ CountPoll
  /\ Goto("can_recv_while")
  /\ UNCHANGED <<cfg, trail, mode, cmds, teardown, CI, mi, si, t, msg,
                 inbound, cs, can_sends, sent, _log, report>>

\* `if` in place of `while`: one more poll, then return whatever came
CanRecvIfNotWhile ==
  /\ pc = "can_recv_while"
  /\ IF Len(call.recv) = 0 /\ call.wait_for_one /\ call.polls < 2
       THEN /\ call.polls < MaxPolls
            /\ \E b \in Batches :
                 call' = [call EXCEPT !.recv = b, !.results = Append(@, b),
                                     !.polls = @ + 1]
            /\ CountPoll
            /\ Goto("can_recv_while")
            /\ UNCHANGED inbound
       ELSE /\ inbound' = CanDataList(call.recv)
            /\ call' = [call EXCEPT !.returned = TRUE, !.recv = <<>>,
                                    !.results = <<>>]
            /\ Goto(call.ret)
            /\ UNCHANGED cnt
  /\ UNCHANGED <<cfg, trail, mode, cmds, teardown, CI, mi, si, t, msg, cs,
                 can_sends, sent, _log, report>>

\* the loop condition without `and wait_for_one`
CanRecvWhileIgnoresFlag ==
  /\ pc = "can_recv_while"
  /\ IF Len(call.recv) = 0
       THEN /\ call.polls < MaxPolls
            /\ \E b \in Batches :
                 call' = [call EXCEPT !.recv = b, !.results = Append(@, b),
                                     !.polls = @ + 1]
            /\ CountPoll
            /\ Goto("can_recv_while")
            /\ UNCHANGED inbound
       ELSE /\ inbound' = CanDataList(call.recv)
            /\ call' = [call EXCEPT !.returned = TRUE, !.recv = <<>>,
                                    !.results = <<>>]
            /\ Goto(call.ret)
            /\ UNCHANGED cnt
  /\ UNCHANGED <<cfg, trail, mode, cmds, teardown, CI, mi, si, t, msg, cs,
                 can_sends, sent, _log, report>>

\* while len(recv) == 0 and wait_for_one: recv = self.p.can_recv()
\* return [[CanData(addr, dat, bus) for addr, dat, bus in recv], ]
\* (main() takes element [0] of the returned list).  On return the frame's
\* locals are gone; the argument and the number of polls stay on record.
CanRecvWhile ==
  /\ pc = "can_recv_while"
  /\ IF Len(call.recv) = 0 /\ call.wait_for_one
       THEN /\ call.polls < MaxPolls
            /\ \E b \in Batches :
                 call' = [call EXCEPT !.recv = b, !.results = Append(@, b),
                             !.polls = @ + 1]
            /\ CountPoll
            /\ Goto("can_recv_while")
            /\ UNCHANGED inbound
       ELSE /\ inbound' = CanDataList(call.recv)
            /\ call' = [call EXCEPT !.returned = TRUE, !.recv = <<>>,
                                    !.results = <<>>]
            /\ Goto(call.ret)
            /\ UNCHANGED cnt
  /\ UNCHANGED <<cfg, trail, mode, cmds, teardown, CI, mi, si, t, msg, cs,
                 can_sends, sent, _log, report>>

-----------------------------------------------------------------------------
(* main(): the loop over MANEUVERS, lines 96-120. *)

\* for m in MANEUVERS: ... cs = None.  The generator of line 109 does not
\* exist yet: t = -1 and msg = None stand for "nothing yielded".
ForManeuver ==
  /\ pc = "for_maneuver"
  /\ IF mi < cfg.maneuvers
       THEN /\ mi' = mi + 1
            /\ cs' = None
            /\ si' = 0
            /\ t' = -1
            /\ msg' = None
            /\ cnt' = NoCalls
            /\ Goto("stab_for")
       ELSE /\ UNCHANGED <<mi, cs, si, t, msg, cnt>>
            /\ Goto("finally")
  /\ UNCHANGED <<cfg, call, trail, mode, cmds, teardown, CI, inbound, can_sends, sent,
                 _log, report>>

\* range(int(3./DT) + 1): one neutral tick too many
StabForOneMore ==
  /\ pc = "stab_for"
  /\ IF si <= cfg.stab THEN Goto("stab_recv") ELSE Goto("script_next")
  /\ UNCHANGED <<cfg, call, trail, mode, cmds, teardown, CI, mi, si, t, msg, inbound, cs,
                 can_sends, sent, _log, report, cnt>>

\* for _ in range(int(3./DT)):
StabFor ==
  /\ pc = "stab_for"
  /\ IF si < cfg.stab THEN Goto("stab_recv") ELSE Goto("script_next")
  /\ UNCHANGED <<cfg, call, trail, mode, cmds, teardown, CI, mi, si, t, msg, inbound, cs,
                 can_sends, sent, _log, report, cnt>>

\* pc.can_recv()[0]: the call of PandaCan.can_recv with its default argument
\* wait_for_one=False (or the transport fails and the call raises)
StabRecv ==
  /\ pc = "stab_recv"
  /\ \/ /\ call' = NewCall(FALSE, "stab_update", "stab")
        /\ Goto("can_recv_poll")
     \/ UNCHANGED call /\ Raise("TransportError")
  /\ UNCHANGED <<cfg, inbound, cnt, trail, mode, cmds, teardown, CI, mi, si, t, msg, cs, can_sends,
                 sent, _log, report>>

\* cs = CI.update([0, ...])
StabUpdate ==
  /\ pc = "stab_update"
  /\ inbound' = <<>>
  /\ \/ \E c \in cfg.shapes :
          /\ cs' = c
          /\ Count("stab", "update")
          /\ Goto("stab_apply")
     \/ UNCHANGED <<cs, cnt>> /\ Raise("DecodeError")
  /\ UNCHANGED <<cfg, call, trail, mode, cmds, teardown, CI, mi, si, t, msg, can_sends,
                 sent, _log, report>>

\* _, can_sends = CI.apply(CarControl(enabled=False))
StabApply ==
  /\ pc = "stab_apply"
  /\ \/ /\ can_sends' = [intent |-> NeutralCC]
        /\ Count("stab", "apply")
        /\ Goto("stab_send")
     \/ UNCHANGED <<can_sends, cnt>> /\ Raise("EncodeError")
  /\ UNCHANGED <<cfg, call, trail, mode, cmds, teardown, CI, mi, si, t, msg, inbound, cs,
                 sent, _log, report>>

\* p.can_send_many(can_sends, timeout=1000)
StabSend ==
  /\ pc = "stab_send"
  /\ \/ /\ sent' = Append(sent, can_sends)
        /\ Count("stab", "send")
        /\ Goto("stab_sleep")
     \/ UNCHANGED <<sent, cnt>> /\ Raise("TransportError")
  /\ UNCHANGED <<cfg, call, trail, mode, cmds, teardown, CI, mi, si, t, msg, inbound, cs,
                 can_sends, _log, report>>

\* time.sleep(DT), end of the loop body
StabSleep ==
  /\ pc = "stab_sleep"
  /\ si' = si + 1
  /\ Goto("stab_for")
  /\ UNCHANGED <<cfg, call, trail, mode, cmds, teardown, CI, mi, t, msg, inbound, cs,
                 can_sends, sent, _log, report, cnt>>

\* range(0, int(1./DT) + 1): the generator yields one tick too many
ScriptNextOneMore ==
  /\ pc = "script_next"
  /\ IF t + 1 <= cfg.ticks
       THEN /\ t' = t + 1
            /\ msg' = get_cc(t + 1)
            /\ Goto("script_recv")
       ELSE /\ UNCHANGED <<t, msg>>
            /\ Goto("for_maneuver")
  /\ UNCHANGED <<cfg, call, trail, mode, cmds, teardown, CI, mi, si, inbound, cs,
                 can_sends, sent, _log, report, cnt>>

\* for t, msg in m.get_msgs(): the generator yields t, get_cc(t) for t in
\* range(0, int(1./DT)), then is exhausted
ScriptNext ==
  /\ pc = "script_next"
  /\ IF t + 1 < cfg.ticks
       THEN /\ t' = t + 1
            /\ msg' = get_cc(t + 1)
            /\ Goto("script_recv")
       ELSE /\ UNCHANGED <<t, msg>>
            /\ Goto("for_maneuver")
  /\ UNCHANGED <<cfg, call, trail, mode, cmds, teardown, CI, mi, si, inbound, cs,
                 can_sends, sent, _log, report, cnt>>

\* pc.can_recv(wait_for_one=True)[0]: the blocking receive inside the loop
ScriptRecvBlocking ==
  /\ pc = "script_recv"
  /\ \/ /\ call' = NewCall(TRUE, "script_update", "script")
        /\ Goto("can_recv_poll")
     \/ UNCHANGED call /\ Raise("TransportError")
  /\ UNCHANGED <<cfg, inbound, cnt, trail, mode, cmds, teardown, CI, mi, si, t, msg, cs, can_sends,
                 sent, _log, report>>

\* pc.can_recv()[0]
ScriptRecv ==
  /\ pc = "script_recv"
  /\ \/ /\ call' = NewCall(FALSE, "script_update", "script")
        /\ Goto("can_recv_poll")
     \/ UNCHANGED call /\ Raise("TransportError")
  /\ UNCHANGED <<cfg, inbound, cnt, trail, mode, cmds, teardown, CI, mi, si, t, msg, cs, can_sends,
                 sent, _log, report>>

\* A decode error caught inside the loop body: the tick is dropped and the
\* loop goes on
ScriptUpdateSkipsBadTick ==
  /\ pc = "script_update"
  /\ inbound' = <<>>
  /\ \/ \E c \in cfg.shapes :
          /\ cs' = c
          /\ Count("script", "update")
          /\ Goto("script_apply")
     \/ UNCHANGED <<cs, cnt>> /\ pc' = "script_next" /\ err' = "DecodeError"
  /\ UNCHANGED <<cfg, call, trail, mode, cmds, teardown, CI, mi, si, t, msg, can_sends,
                 sent, _log, report>>

\* cs = CI.update([0, ...])
ScriptUpdate ==
  /\ pc = "script_update"
  /\ inbound' = <<>>
  /\ \/ \E c \in cfg.shapes :
          /\ cs' = c
          /\ Count("script", "update")
          /\ Goto("script_apply")
     \/ UNCHANGED <<cs, cnt>> /\ Raise("DecodeError")
  /\ UNCHANGED <<cfg, call, trail, mode, cmds, teardown, CI, mi, si, t, msg, can_sends,
                 sent, _log, report>>

\* _, can_sends = CI.apply(msg); the p.can_send_many call that follows in
\* the source is commented out, so the next statement is m.log
ScriptApply ==
  /\ pc = "script_apply"
  /\ \/ /\ can_sends' = [intent |-> msg]
        /\ Count("script", "apply")
        /\ Goto("script_log")
     \/ UNCHANGED <<can_sends, cnt>> /\ Raise("EncodeError")
  /\ UNCHANGED <<cfg, call, trail, mode, cmds, teardown, CI, mi, si, t, msg, inbound, cs,
                 sent, _log, report>>

\* m.log(t, msg, cs)
ScriptLog ==
  /\ pc = "script_log"
  /\ _log' = log(_log, t, msg, cs)
  /\ Count("script", "log")
  /\ Goto("script_sleep")
  /\ UNCHANGED <<cfg, call, trail, mode, cmds, teardown, CI, mi, si, t, msg, inbound, cs,
                 can_sends, sent, report>>

\* the test `len(m._log["t"]) > 100` that ends the scripted loop
CapReached(d, cap) == Len(Get(d, TKey)) > cap

\* the cap treated as an error: `raise` where the source has `break`
ScriptSleepRaisesOnCap ==
  /\ pc = "script_sleep"
  /\ IF CapReached(Trace(mi), cfg.cap)
       THEN Raise("CapReached")
       ELSE Goto("script_next")
  /\ UNCHANGED <<cfg, call, trail, mode, cmds, teardown, CI, mi, si, t, msg, inbound, cs,
                 can_sends, sent, _log, report, cnt>>

\* time.sleep(DT); if len(m._log["t"]) > 100: break
ScriptSleep ==
  /\ pc = "script_sleep"
  /\ IF CapReached(Trace(mi), cfg.cap)
       THEN Goto("for_maneuver")
       ELSE Goto("script_next")
  /\ UNCHANGED <<cfg, call, trail, mode, cmds, teardown, CI, mi, si, t, msg, inbound, cs,
                 can_sends, sent, _log, report, cnt>>

-----------------------------------------------------------------------------
(* main(): the finally clause and the report, lines 121-163. *)

\* The clause written as `except:` with a re-raise: it runs on errors only
FinallyOnErrorOnly ==
  /\ pc = "finally"
  /\ \E ok \in BOOLEAN :
       /\ IF err = "none" THEN UNCHANGED <<cmds, mode>>
                          ELSE set_safety_mode(SAFETY_NOOUTPUT, ok)
       /\ teardown' = IF ok THEN "ok" ELSE "failed"
       /\ err' = IF ok THEN err ELSE "TransportError"
       /\ pc' = IF ok /\ err = "none" THEN "report" ELSE "raised"
  /\ UNCHANGED <<cfg, call, trail, CI, mi, si, t, msg, inbound, cs, can_sends, sent, _log,
                 report, cnt>>

\* finally: p.set_safety_mode(Panda.SAFETY_NOOUTPUT).  After it an exception
\* in flight leaves main(); a failure of this call leaves main() as well.
Finally ==
  /\ pc = "finally"
  /\ \E ok \in BOOLEAN :
       /\ set_safety_mode(SAFETY_NOOUTPUT, ok)
       /\ teardown' = IF ok THEN "ok" ELSE "failed"
       /\ err' = IF ok THEN err ELSE "TransportError"
       /\ pc' = IF ok /\ err = "none" THEN "report" ELSE "raised"
  /\ UNCHANGED <<cfg, call, trail, CI, mi, si, t, msg, inbound, cs, can_sends, sent, _log,
                 report, cnt>>

\* the data one maneuver's section plots
Section(i) ==
  [t |-> Get(Trace(i), TKey),
   aEgo |-> Get(Trace(i), <<"carState", "aEgo">>),
   accel |-> Get(Trace(i), <<"carControl.actuators", "accel">>),
   enabled |-> Get(Trace(i), <<"carControl", "enabled">>),
   cruiseEnabled |-> Get(Trace(i), <<"carState.cruiseState", "enabled">>)]

\* with open("report.html", "w") as f: ... for m in MANEUVERS: ...
WriteReport ==
  /\ pc = "report"
  /\ report' = [written |-> TRUE,
                sections |-> [i \in 1..cfg.maneuvers |-> Section(i)]]
  /\ Goto("done")
  /\ UNCHANGED <<cfg, call, trail, mode, cmds, teardown, CI, mi, si, t, msg, inbound, cs,
                 can_sends, sent, _log, cnt>>

Next ==
  \/ SetPassive \/ GetCar \/ AssertLong \/ SetPassive2 \/ CarInit \/ SetActive
  \/ ForManeuver
  \/ CanRecvPoll \/ CanRecvWhile
  \/ StabFor \/ StabRecv \/ StabUpdate \/ StabApply \/ StabSend \/ StabSleep
  \/ ScriptNext \/ ScriptRecv \/ ScriptUpdate \/ ScriptApply \/ ScriptLog
  \/ ScriptSleep
  \/ Finally \/ WriteReport

StabPcs ==
  {"stab_for", "stab_recv", "stab_update", "stab_apply", "stab_send",
   "stab_sleep"}

ScriptPcs ==
  {"script_next", "script_recv", "script_update", "script_apply",
   "script_log", "script_sleep"}

\* KeyboardInterrupt: Python raises it in the main thread between any two
\* bytecodes (and out of time.sleep and the blocking USB calls); main()
\* installs no signal handler and does not defer it
Interrupt ==
  /\ pc \in {"set_passive", "get_car", "assert_long", "set_passive2", "init",
             "set_active", "for_maneuver", "can_recv_poll", "can_recv_while"}
            \cup StabPcs \cup ScriptPcs
  /\ Raise("KeyboardInterrupt")
  /\ UNCHANGED <<cfg, call, trail, mode, cmds, teardown, CI, mi, si, t, msg, inbound, cs,
                 can_sends, sent, _log, report, cnt>>

NextStop == Next \/ Interrupt

\* the program as written
Spec == Init /\ [][Next]_vars

\* the program as written, run by a user who may press Ctrl-C
SpecStop == Init /\ [][NextStop]_vars

\* the same code over other lengths of MANEUVERS, loop bounds and cap
SpecGen == InitGen /\ [][Next]_vars

\* PandaCan.can_recv called on its own, with either argument
InitRecv ==
  /\ cfg = ProgramConfig
  /\ pc = "can_recv_poll"
  /\ call \in {NewCall(w, "returned", "none") : w \in BOOLEAN}
  /\ InitData

NextRecv == CanRecvPoll \/ CanRecvWhile

SpecRecv == InitRecv /\ [][NextRecv]_vars

\* the same, the calling thread always running on
SpecRecvFair == SpecRecv /\ WF_vars(NextRecv)

-----------------------------------------------------------------------------
(* Properties. *)

Last(s) == s[Len(s)]

\* main() has left the try/finally statement
TornDown == pc \in {"report", "raised", "done"}

\* the t sequence of the trace of maneuver i
Ticks(i) == Get(Trace(i), TKey)

\* <<0, 1, ..., n-1>>
UpTo(n) == [i \in 1..n |-> i - 1]

Occurrences(s, x) == Cardinality({i \in 1..Len(s) : s[i] = x})

\* C1: once main() has left the session bracket, by normal completion or by
\* an error raised at any statement inside the try block, the last mode-set
\* command issued is SAFETY_NOOUTPUT, and the panda is in that mode whenever
\* that command itself went through.
C1_DisabledAfterTeardown ==
  TornDown =>
    /\ cmds # <<>>
    /\ Last(cmds) = SAFETY_NOOUTPUT
    /\ (teardown = "ok" => mode = SAFETY_NOOUTPUT)

\* an error in a scripted tick after Active mode was entered, torn down
C1_Witness ==
  /\ pc = "raised"
  /\ err = "EncodeError"
  /\ t >= 0
  /\ SAFETY_TOYOTA \in {cmds[i] : i \in 1..Len(cmds)}
  /\ mode = SAFETY_NOOUTPUT

\* C2: the SAFETY_NOOUTPUT mode-set is issued exactly once per session: at
\* most once at any time, not before the session bracket is left, and once
\* on every exit path.
C2_DisabledExactlyOnce ==
  /\ Occurrences(cmds, SAFETY_NOOUTPUT) <= 1
  /\ (TornDown <=> Occurrences(cmds, SAFETY_NOOUTPUT) = 1)

\* normal completion: every maneuver ran, the report was written
C2_Witness ==
  /\ pc = "done"
  /\ err = "none"
  /\ report.written
  /\ Occurrences(cmds, SAFETY_NOOUTPUT) = 1



\* C3: a maneuver whose script yields N ticks, run with a sample cap M < N,
\* ends with a trace of exactly M samples whose ticks are 0..M-1.
C3_CapBound ==
  (pc = "for_maneuver" /\ mi = 1 /\ cfg.cap < cfg.ticks) =>
    Ticks(1) = UpTo(cfg.cap)

\* C4: when CI.update raises on scripted tick k, the trace holds exactly the
\* ticks 0..k-1, nothing of tick k after the decode has run (k encodes and k
\* log calls were made, k+1 polls), no later tick is started, and control is
\* at the finally clause or past it with SAFETY_NOOUTPUT issued.
C4_DecodeErrorStopsRun ==
  (err = "DecodeError" /\ t >= 0) =>
    /\ Ticks(mi) = UpTo(t)
    /\ cnt.script.recv = t + 1
    /\ cnt.script.update = t
    /\ cnt.script.apply = t
    /\ cnt.script.log = t
    /\ pc \in {"finally", "raised"}
    /\ (pc = "raised" => Last(cmds) = SAFETY_NOOUTPUT)

\* the spec's case: the decode error on tick 42 of the 100-tick maneuver
C4_Witness ==
  /\ err = "DecodeError"
  /\ t = 42
  /\ cfg.ticks = 100
  /\ pc = "raised"
  /\ Len(Ticks(mi)) = 42
  /\ mode = SAFETY_NOOUTPUT

\* C5: when an error ends the session during a maneuver, the report is
\* still written and holds the section of every maneuver completed before.
C5_ReportAfterError ==
  (pc = "raised" /\ mi >= 1) =>
    /\ report.written
    /\ \A i \in 1..(mi - 1) : report.sections[i] = Section(i)

\* C6: in every scripted tick the batch returned by CI.apply is sent after
\* the encode and before the tick's sample is logged.
C6_ScriptedBatchSent ==
  /\ cnt.script.log <= cnt.script.send
  /\ pc = "script_log" =>
       /\ cnt.script.send = cnt.script.apply
       /\ Last(sent) = can_sends

\* C7: each maneuver run has its own trace: a step changes the trace of no
\* maneuver other than the one being run.
C7_OwnTrace ==
  [][\A i \in 1..cfg.maneuvers : i # mi => Trace(i)' = Trace(i)]_vars

\* C8: once the first log call of a run has fixed the tracked field paths,
\* a log call with another field set raises TraceSchemaError and appends
\* nothing, t included.
C8_SchemaMismatchRaises ==
  [][(/\ pc = "script_log"
      /\ cnt.script.log >= 1
      /\ FieldSet(msg, cs) \cup {TKey} # DOMAIN Trace(mi))
     => (_log' = _log /\ err' = "TraceSchemaError")]_vars

\* 1 when pc is one of `after`, the statements that follow a call in its tick
Past(after) == IF pc \in after THEN 1 ELSE 0

\* C9: the stabilization phase is exactly 300 ticks, each one poll, one
\* decode, one encode of CarControl(enabled=False) and one send of it; it
\* logs nothing and no scripted tick starts before the 300 are done.
C9_Stabilization ==
  /\ pc \in StabPcs =>
       /\ si <= StabTicks
       /\ (pc # "stab_for" => si < StabTicks)
       /\ cnt.stab.recv =
            si + Past({"stab_update", "stab_apply", "stab_send", "stab_sleep"})
       /\ cnt.stab.update = si + Past({"stab_apply", "stab_send", "stab_sleep"})
       /\ cnt.stab.apply = si + Past({"stab_send", "stab_sleep"})
       /\ cnt.stab.send = si + Past({"stab_sleep"})
       /\ cnt.script = NoCalls.script
       /\ t = -1
       /\ Ticks(mi) = <<>>
  /\ pc \in ScriptPcs =>
       /\ si = StabTicks
       /\ cnt.stab.recv = StabTicks
       /\ cnt.stab.update = StabTicks
       /\ cnt.stab.apply = StabTicks
       /\ cnt.stab.send = StabTicks
       /\ (t = -1 => Ticks(mi) = <<>>)
  /\ pc \in StabPcs \cup ScriptPcs =>
       /\ Len(sent) = cnt.stab.send
       /\ \A i \in 1..Len(sent) : sent[i] = [intent |-> NeutralCC]

\* the scripted loop is entered after the 300th neutral tick
C9_Witness ==
  /\ pc = "script_next"
  /\ t = -1
  /\ si = 300
  /\ Len(sent) = 300
  /\ cnt.stab.recv = 300

\* C10: an error-free run of the 1.0 s maneuver attempts exactly 100
\* scripted ticks, one at a time in increasing order, and ends with
\* t = <<0, ..., 99>>.
C10_FullRun ==
  /\ (mi = 1 /\ pc \in ScriptPcs) =>
       /\ Ticks(1) = UpTo(Len(Ticks(1)))
       /\ Len(Ticks(1)) = t + Past({"script_sleep", "script_next"})
       /\ cnt.script.recv =
            t + Past({"script_update", "script_apply", "script_log",
                      "script_sleep", "script_next"})
  /\ (mi = 1 /\ err = "none"
        /\ pc \in {"for_maneuver", "finally", "report", "done"}) =>
       /\ cnt.script.recv = ScriptTicks
       /\ t = ScriptTicks - 1
       /\ Ticks(1) = UpTo(ScriptTicks)

\* the run is over, error-free, with the 100 samples
C10_Witness ==
  /\ pc = "done"
  /\ err = "none"
  /\ cnt.script.recv = 100
  /\ Len(Ticks(1)) = 100
  /\ Ticks(1)[100] = 99

\* the first non-empty batch of a sequence of poll results (<<>> if none)
RECURSIVE FirstNonEmpty(_)
FirstNonEmpty(rs) ==
  IF rs = <<>> THEN <<>>
  ELSE IF Len(Head(rs)) > 0 THEN Head(rs)
  ELSE FirstNonEmpty(Tail(rs))

\* the step on which can_recv returns
Returns == ~call.returned /\ call'.returned

\* C11: whatever the polls return, a can_recv(wait_for_one=True) call that
\* returns hands back at least one frame, and exactly the frames (as
\* CanData) of the first non-empty poll.
C11_BlockingRecvNonEmpty ==
  [][(call.wait_for_one /\ Returns) =>
       /\ Len(inbound') >= 1
       /\ inbound' = CanDataList(FirstNonEmpty(call.results))]_vars

\* a blocking call that returned after an empty poll and a non-empty one
C11_Witness ==
  /\ pc = "returned"
  /\ call.returned
  /\ call.wait_for_one
  /\ call.polls = 2
  /\ Len(inbound) >= 1

\* C17: can_recv(wait_for_one=False) returns after exactly one poll whatever
\* it got; can_recv(wait_for_one=True) polls again after every empty result
\* (no timeout), returns only on a non-empty poll, and does return once a
\* poll is non-empty.
C17_RecvTermination ==
  /\ [](call.returned /\ ~call.wait_for_one => call.polls = 1)
  /\ (~call.wait_for_one ~> call.returned)
  /\ [][(/\ pc = "can_recv_while"
          /\ call.wait_for_one
          /\ Len(call.recv) = 0
          /\ call.polls < MaxPolls)
         => (call'.polls = call.polls + 1 /\ ~call'.returned)]_vars
  /\ [][(call.wait_for_one /\ Returns) => Len(call.recv) > 0]_vars
  /\ ((call.wait_for_one /\ Len(call.recv) > 0) ~> call.returned)

\* a blocking call that went through two empty polls before it returned
C17_Witness ==
  /\ pc = "returned"
  /\ call.returned
  /\ call.wait_for_one
  /\ call.polls = 3

Range(s) == {s[i] : i \in 1..Len(s)}

\* the startup statements of main(), in source order
StartupSteps ==
  <<"set_passive", "get_car", "assert_long", "set_passive2", "init",
    "set_active">>

\* C12: SAFETY_TOYOTA is commanded only after the first Passive mode-set, a
\* successful get_car, a passed longitudinal-control assert, the second
\* Passive mode-set and a completed CI.init, in that order; when get_car
\* fails or the assert fails the session aborts, SAFETY_TOYOTA is never
\* commanded and the commands are Passive then Disabled.
C12_ActiveOnlyAfterStartup ==
  /\ SAFETY_TOYOTA \in Range(cmds) =>
       /\ Len(trail) = 6
       /\ \A i \in 1..6 : trail[i].step = StartupSteps[i]
       /\ \A i \in 1..5 : trail[i].ok
       /\ CI.openpilotLongitudinalControl
       /\ SubSeq(cmds, 1, 3) = <<SAFETY_ELM327, SAFETY_ELM327, SAFETY_TOYOTA>>
  /\ (\E i \in 1..Len(trail) :
        trail[i].step \in {"get_car", "assert_long"} /\ ~trail[i].ok) =>
       /\ pc \in {"finally", "raised"}
       /\ mi = 0
       /\ sent = <<>>
       /\ mode # SAFETY_TOYOTA
       /\ cmds = IF pc = "finally" THEN <<SAFETY_ELM327>>
                 ELSE <<SAFETY_ELM327, SAFETY_NOOUTPUT>>
       /\ (teardown = "ok" => mode = SAFETY_NOOUTPUT)

\* the car was fingerprinted, longitudinal control is off: aborted
C12_Witness ==
  /\ pc = "raised"
  /\ err = "AssertionError"
  /\ Len(trail) = 3
  /\ trail[2].ok
  /\ ~trail[3].ok
  /\ mode = SAFETY_NOOUTPUT

ModeSetSteps == {"set_passive", "set_passive2", "set_active"}

\* C13: when a Passive or Active mode-set fails, it is the last startup
\* statement executed (no retry, nothing after it), every mode-set of the
\* startup was commanded once, no loop tick has run, and control is at the
\* finally clause or past it with SAFETY_NOOUTPUT commanded.
C13_ModeSetFailureFatal ==
  \A i \in 1..Len(trail) :
    (trail[i].step \in ModeSetSteps /\ ~trail[i].ok) =>
      /\ i = Len(trail)
      /\ \A j \in 1..i : trail[j].step = StartupSteps[j]
      /\ Cardinality({j \in 1..Len(cmds) : cmds[j] # SAFETY_NOOUTPUT})
           = Cardinality({j \in 1..i : trail[j].step \in ModeSetSteps})
      /\ pc \in {"finally", "raised"}
      /\ mi = 0
      /\ sent = <<>>
      /\ cnt = NoCalls
      /\ ~call.returned
      /\ (pc = "raised" => Last(cmds) = SAFETY_NOOUTPUT)

\* the Active mode-set failed; the session ended in Disabled mode
C13_Witness ==
  /\ pc = "raised"
  /\ Len(trail) = 6
  /\ ~trail[6].ok
  /\ cmds = <<SAFETY_ELM327, SAFETY_ELM327, SAFETY_TOYOTA, SAFETY_NOOUTPUT>>
  /\ mode = SAFETY_NOOUTPUT

\* C15: every can_recv call of the timed loop is the non-blocking one and
\* makes exactly one p.can_recv() poll: one poll per stabilization tick, one
\* per scripted tick, an empty result included.
C15_LoopPollsOnce ==
  /\ call.phase \in {"stab", "script"} =>
       /\ ~call.wait_for_one
       /\ call.polls <= 1
       /\ (call.returned => call.polls = 1)
  /\ pc = "can_recv_poll" => call.polls = 0
  /\ pc = "can_recv_while" => call.polls = 1
  /\ pc \in {"can_recv_poll", "can_recv_while"} =>
       /\ call.phase = "stab" => cnt.stab.recv = si + call.polls
       /\ call.phase = "script" => cnt.script.recv = t + call.polls
  /\ pc = "stab_update" =>
       call.phase = "stab" /\ call.returned /\ cnt.stab.recv = si + 1
  /\ pc = "script_update" =>
       call.phase = "script" /\ call.returned /\ cnt.script.recv = t + 1

\* a scripted tick whose only poll came back empty goes on to the decode
C15_Witness ==
  /\ pc = "script_update"
  /\ t = 7
  /\ inbound = <<>>
  /\ call.returned
  /\ call.polls = 1
  /\ cnt.script.recv = 8

\* the scripted loop left by `break` with ticks of the script still to come
CapBreak ==
  /\ pc = "script_sleep"
  /\ CapReached(Trace(mi), cfg.cap)
  /\ t + 1 < cfg.ticks

\* C16: the break on the sample cap, taken with script ticks left, raises
\* nothing and keeps the trace; control goes to the next maneuver if there
\* is one, else to the finally clause, whose SAFETY_NOOUTPUT is followed by
\* the report holding the capped trace.
C16_CapIsNormalCompletion ==
  /\ [][CapBreak =>
          /\ pc' = "for_maneuver"
          /\ err' = "none"
          /\ mi' = mi
          /\ _log' = _log]_vars
  /\ [][(pc = "for_maneuver" /\ mi >= 1 /\ t + 1 < cfg.ticks) =>
          /\ err' = "none"
          /\ _log' = _log
          /\ IF mi < cfg.maneuvers
               THEN pc' = "stab_for" /\ mi' = mi + 1
               ELSE pc' = "finally"]_vars
  /\ []((/\ pc \in {"for_maneuver", "finally", "report", "done"}
         /\ err = "none"
         /\ mi >= 1
         /\ t + 1 < cfg.ticks) =>
          /\ t >= 0
          /\ Len(Ticks(mi)) > cfg.cap
          /\ (pc \in {"report", "done"} => Last(cmds) = SAFETY_NOOUTPUT)
          /\ (pc = "done" =>
                /\ report.written
                /\ report.sections[mi].t = Ticks(mi)))

\* two maneuvers, both cut short by the cap, and the report written
C16_Witness ==
  /\ pc = "done"
  /\ err = "none"
  /\ cfg.maneuvers = 2
  /\ cfg.cap = 1
  /\ cfg.ticks = 4
  /\ t + 1 < cfg.ticks
  /\ report.written
  /\ Len(report.sections[2].t) > cfg.cap

\* C18: a stop request ends the session between ticks only: when the
\* session was stopped, every tick that was started has run all of its
\* steps (each stabilization poll has its send, each scripted poll its log
\* call), and SAFETY_NOOUTPUT is commanded before main() is left.
C18_StopBetweenTicks ==
  err = "KeyboardInterrupt" =>
    /\ cnt.stab.recv = cnt.stab.send
    /\ cnt.script.recv = cnt.script.log
    /\ (pc = "raised" => Last(cmds) = SAFETY_NOOUTPUT)

\* C19: the sequences of the trace are parallel: every key of _log holds as
\* many values as "t" does, one per completed log call, and a log call adds
\* exactly one value under "t" and under every field path.
C19_ParallelSequences ==
  /\ [](\A k \in DOMAIN _log :
          /\ Len(_log[k]) = Len(Ticks(mi))
          /\ Len(_log[k]) = cnt.script.log)
  /\ [][pc = "script_log" =>
          /\ DOMAIN _log' = FieldSet(msg, cs) \cup {TKey}
          /\ \A k \in DOMAIN _log' : Len(_log'[k]) = Len(Get(_log, k)) + 1]_vars

\* three log calls done, the sequences three long
C19_Witness ==
  /\ pc = "script_sleep"
  /\ cnt.script.log = 3
  /\ Ticks(mi) = <<0, 1, 2>>
  /\ Len(_log[<<"carState", "aEgo">>]) = 3
  /\ Len(_log[<<"carControl", "enabled">>]) = 3

LoopPcs ==
  StabPcs \cup ScriptPcs \cup {"for_maneuver", "can_recv_poll", "can_recv_while"}

\* C20: a batch is sent only with the panda in SAFETY_TOYOTA, set by a
\* successful mode-set and not yet followed by SAFETY_NOOUTPUT; while
\* control is anywhere in the loops the mode is SAFETY_TOYOTA.
C20_TicksOnlyWhileActive ==
  /\ [][sent' # sent =>
          /\ mode = SAFETY_TOYOTA
          /\ mode' = SAFETY_TOYOTA
          /\ Last(cmds) = SAFETY_TOYOTA
          /\ pc \in StabPcs]_vars
  /\ [](pc \in LoopPcs =>
          /\ mode = SAFETY_TOYOTA
          /\ Len(trail) = 6
          /\ trail[6] = [step |-> "set_active", ok |-> TRUE]
          /\ SAFETY_NOOUTPUT \notin Range(cmds))
  /\ [](mode # SAFETY_TOYOTA /\ pc \notin {"finally", "raised", "report", "done"}
          => sent = <<>> /\ cnt = NoCalls)

\* a neutral batch on the bus, the panda in SAFETY_TOYOTA
C20_Witness ==
  /\ pc = "stab_sleep"
  /\ Len(sent) = 2
  /\ mode = SAFETY_TOYOTA
  /\ Last(cmds) = SAFETY_TOYOTA
  /\ cnt.stab.send = 2

====
